---- MODULE Spec2Model ----
(***************************************************************************)
(* AWS Signature Version 4 signing of awscurl (src/signature/mod.rs):      *)
(* the V4SigBuilder, sign_headers and mqtt_over_websockets_request.        *)
(*                                                                         *)
(* A Rust String is a sequence of one-character strings.  A SHA-256 or     *)
(* HMAC digest is a single opaque element of such a sequence, written as   *)
(* the text of the inputs it was computed from: two digests are equal      *)
(* exactly when their inputs are (an ideal, collision-free hash).          *)
(***************************************************************************)
EXTENDS Integers, Sequences, FiniteSets, TLC

(***************************************************************************)
(* Bounds of the model.                                                    *)
(***************************************************************************)
\* how many seconds the wall clock may advance while one operation runs
MaxTicks == 2
\* how many headers the caller's mapping holds before sign_headers
MaxHeaders == 2

(***************************************************************************)
(* The state: one call of sign_headers or of mqtt_over_websockets_request, *)
(* step by step, while the wall clock advances.                            *)
(***************************************************************************)
VARIABLES
    op,         \* the function called: "sign_headers" or "mqtt"
    pc,         \* the statement the call is at
    clock,      \* the wall clock, seconds since 2015-08-30T00:00:00Z
    caller,     \* the header mapping as the caller passed it
    headers,    \* the header mapping (sign_headers' argument, mqtt's local)
    options,    \* <<V4SigOptions>>, <<>> before mqtt has built it
    profile,    \* the AWSProfile
    endpoint,   \* mqtt's endpoint argument
    url,        \* mqtt's url string
    v4,         \* <<V4SigBuilder>>, <<>> before V4SigBuilder::new
    request,    \* <<Request>> once mqtt has built it
    fault,      \* "none", or "panic" once an unwrap has panicked
    captured    \* the instants Timestamp::new has read from the clock

vars == <<op, pc, clock, caller, headers, options, profile, endpoint, url, v4, request,
          fault, captured>>

(***************************************************************************)
(* Characters and strings.                                                 *)
(***************************************************************************)
\* the printable ASCII characters, code 32 to code 126, in code order (the
\* grave accent, code 96, cannot be written in a string and is spelled out)
Printable ==
    <<" ", "!", "\"", "#", "$", "%", "&", "'", "(", ")", "*", "+", ",", "-",
      ".", "/", "0", "1", "2", "3", "4", "5", "6", "7", "8", "9", ":", ";",
      "<", "=", ">", "?", "@", "A", "B", "C", "D", "E", "F", "G", "H", "I",
      "J", "K", "L", "M", "N", "O", "P", "Q", "R", "S", "T", "U", "V", "W",
      "X", "Y", "Z", "[", "\\", "]", "^", "_", "(grave)", "a", "b", "c", "d", "e",
      "f", "g", "h", "i", "j", "k", "l", "m", "n", "o", "p", "q", "r", "s",
      "t", "u", "v", "w", "x", "y", "z", "{", "|", "}", "~">>

CharSet == {Printable[i] : i \in 1..Len(Printable)} \cup {"\n"}

OrdOf ==
    [c \in CharSet |->
        IF c = "\n" THEN 10
        ELSE 31 + (CHOOSE i \in 1..Len(Printable) : Printable[i] = c)]

\* a digest (hexadecimal text kept as one element) is no single character
IsDigest(c) == c \notin CharSet

\* the byte value of a character; a digest sorts as a hexadecimal digit
Ord(c) == IF IsDigest(c) THEN 48 ELSE OrdOf[c]

Chr(n) == IF n = 10 THEN "\n" ELSE Printable[n - 31]

\* str::to_lowercase on ASCII text
LowerChar(c) == IF Ord(c) >= 65 /\ Ord(c) <= 90 /\ ~IsDigest(c) THEN Chr(Ord(c) + 32) ELSE c

to_lowercase(s) == [i \in 1..Len(s) |-> LowerChar(s[i])]

RECURSIVE Flatten(_)
\* the text of a string, as one value
Flatten(s) ==
    IF s = <<>> THEN ""
    ELSE IF Len(s) = 1 THEN s[1]
    ELSE Flatten(SubSeq(s, 1, Len(s) \div 2)) \o Flatten(SubSeq(s, (Len(s) \div 2) + 1, Len(s)))

RECURSIVE Concat(_)
\* format!: the concatenation of the pieces
Concat(parts) == IF parts = <<>> THEN <<>> ELSE Head(parts) \o Concat(Tail(parts))

RECURSIVE Join(_, _)
\* [String]::join
Join(items, sep) ==
    IF items = <<>> THEN <<>>
    ELSE IF Len(items) = 1 THEN items[1]
    ELSE items[1] \o sep \o Join(Tail(items), sep)

\* the first position of character c in s, or 0
IndexOf(s, c) ==
    LET at == {i \in 1..Len(s) : s[i] = c}
    IN  IF at = {} THEN 0 ELSE CHOOSE i \in at : \A j \in at : i <= j

RECURSIVE Split(_, _)
\* str::split on one character
Split(s, c) ==
    LET i == IndexOf(s, c)
    IN  IF i = 0 THEN <<s>>
        ELSE <<SubSeq(s, 1, i - 1)>> \o Split(SubSeq(s, i + 1, Len(s)), c)

RECURSIVE StrLess(_, _)
\* the order of String: byte-wise lexicographic
StrLess(a, b) ==
    IF b = <<>> THEN FALSE
    ELSE IF a = <<>> THEN TRUE
    ELSE IF Ord(Head(a)) # Ord(Head(b)) THEN Ord(Head(a)) < Ord(Head(b))
    ELSE StrLess(Tail(a), Tail(b))

RECURSIVE trim_start(_)
trim_start(s) == IF s # <<>> /\ Head(s) \in {" ", "\n"} THEN trim_start(Tail(s)) ELSE s

RECURSIVE trim_end(_)
trim_end(s) ==
    IF s # <<>> /\ s[Len(s)] \in {" ", "\n"} THEN trim_end(SubSeq(s, 1, Len(s) - 1)) ELSE s

\* str::trim
trim(s) == trim_end(trim_start(s))

\* the permutations of a finite set, as sequences
Orders(S) ==
    {f \in [1..Cardinality(S) -> S] : \A i, j \in 1..Cardinality(S) : f[i] = f[j] => i = j}

(***************************************************************************)
(* Collaborators of mod.rs: percent-encoding (uri), digests and merge      *)
(* (utils), the timestamp, the request method and the profile (types).    *)
(***************************************************************************)
HexDigits == <<"0", "1", "2", "3", "4", "5", "6", "7", "8", "9", "A", "B", "C", "D", "E", "F">>

\* one byte as two upper-case hexadecimal digits
Hex(n) == <<HexDigits[(n \div 16) + 1], HexDigits[(n % 16) + 1]>>

\* A-Z a-z 0-9 - . _ ~ ; a hexadecimal digest holds only such characters
Unreserved(c) ==
    \/ IsDigest(c)
    \/ (Ord(c) >= 65 /\ Ord(c) <= 90)
    \/ (Ord(c) >= 97 /\ Ord(c) <= 122)
    \/ (Ord(c) >= 48 /\ Ord(c) <= 57)
    \/ c \in {"-", ".", "_", "~"}

\* uri::encode_uri: every byte that is not unreserved becomes %XX
encode_uri(s) ==
    Concat([i \in 1..Len(s) |-> IF Unreserved(s[i]) THEN <<s[i]>> ELSE <<"%">> \o Hex(Ord(s[i]))])

\* utils::hash: SHA-256 of the message, as lower-case hexadecimal text
hash(msg) == <<"sha256(" \o Flatten(msg) \o ")">>

\* utils::sign: HMAC-SHA-256 of the message under the key, raw bytes
sign(key, msg) == <<"hmac(" \o Flatten(key) \o "," \o Flatten(msg) \o ")">>

\* hex::encode of a raw digest
hex_encode(bytes) == <<"hex(" \o Flatten(bytes) \o ")">>

\* the canonical key of an item: the item up to its first ":" or "="
CanonicalKey(item) ==
    LET at == {i \in 1..Len(item) : item[i] \in {":", "="}}
    IN  IF at = {} THEN item ELSE SubSeq(item, 1, (CHOOSE i \in at : \A j \in at : i <= j) - 1)

\* the order merge sorts by: the canonical key, then the whole item
ItemLess(a, b) ==
    \/ StrLess(CanonicalKey(a), CanonicalKey(b))
    \/ (~StrLess(CanonicalKey(b), CanonicalKey(a)) /\ StrLess(a, b))

RECURSIVE InsertSorted(_, _)
InsertSorted(sorted, x) ==
    IF sorted = <<>> THEN <<x>>
    ELSE IF ItemLess(x, Head(sorted)) THEN <<x>> \o sorted
    ELSE <<Head(sorted)>> \o InsertSorted(Tail(sorted), x)

RECURSIVE SortItems(_)
SortItems(items) ==
    IF items = <<>> THEN <<>>
    ELSE InsertSorted(SortItems(SubSeq(items, 1, Len(items) - 1)), items[Len(items)])

\* utils::merge: the items sorted by canonical key, joined by the separator
merge(items, sep) == Join(SortItems(items), sep)

SecondsPerDay == 24 * 60 * 60

TwoDigits(n) == <<Chr(48 + (n \div 10)), Chr(48 + (n % 10))>>

\* Timestamp::new: the instant read from the clock (seconds since
\* 2015-08-30T00:00:00Z)
Timestamp_new(now) == now

\* Timestamp::date_stamp: YYYYMMDD of the instant
date_stamp(t) == <<"2", "0", "1", "5", "0", "8">> \o TwoDigits(30 + (t \div SecondsPerDay))

\* Timestamp::x_amz_date: YYYYMMDDTHHMMSSZ of the instant
x_amz_date(t) ==
    LET s == t % SecondsPerDay
    IN  Concat(<<date_stamp(t), <<"T">>, TwoDigits(s \div 3600),
                 TwoDigits((s % 3600) \div 60), TwoDigits(s % 60), <<"Z">>>>)

\* Method's Display: the verb
method_display(method) == method.verb

\* Method::hash_body: the SHA-256 of the body, of the empty string without one
hash_body(method) == hash(method.body)

(***************************************************************************)
(* The url crate, as far as mod.rs uses it.                                *)
(***************************************************************************)
HexChars == {"0", "1", "2", "3", "4", "5", "6", "7", "8", "9",
             "A", "B", "C", "D", "E", "F", "a", "b", "c", "d", "e", "f"}

HexVal(c) ==
    IF Ord(c) <= 57 THEN Ord(c) - 48
    ELSE IF Ord(c) <= 70 THEN Ord(c) - 55
    ELSE Ord(c) - 87

\* form_urlencoded decoding: "+" is a space, %XX is the byte XX
form_decode(s) ==
    LET escape(i) == s[i] = "%" /\ i + 2 <= Len(s) /\ s[i + 1] \in HexChars /\ s[i + 2] \in HexChars
        inEscape(i) == (i > 1 /\ escape(i - 1)) \/ (i > 2 /\ escape(i - 2))
        kept == SelectSeq([i \in 1..Len(s) |-> i], LAMBDA i : ~inEscape(i))
    IN  [j \in 1..Len(kept) |->
            IF s[kept[j]] = "+" THEN " "
            ELSE IF escape(kept[j]) THEN Chr(16 * HexVal(s[kept[j] + 1]) + HexVal(s[kept[j] + 2]))
            ELSE s[kept[j]]]

\* the (name, value) pairs of a raw query string, decoded
parse_query(q) ==
    LET segs == SelectSeq(Split(q, "&"), LAMBDA seg : seg # <<>>)
    IN  [i \in 1..Len(segs) |->
            LET e == IndexOf(segs[i], "=")
            IN  IF e = 0 THEN <<form_decode(segs[i]), <<>>>>
                ELSE <<form_decode(SubSeq(segs[i], 1, e - 1)),
                       form_decode(SubSeq(segs[i], e + 1, Len(segs[i])))>>]

\* Url::query_pairs
query_pairs(u) == parse_query(u.query)

\* Url::host_str: <<h>> for Some(h), <<>> for None
host_str(u) == u.host

\* the characters a host may not hold
ForbiddenHost == {" ", "#", "%", "/", ":", "<", ">", "?", "@", "[", "\\", "]", "^", "|", "\n"}

RECURSIVE SkipSlashes(_)
SkipSlashes(s) == IF s # <<>> /\ Head(s) = "/" THEN SkipSlashes(Tail(s)) ELSE s

\* the first position in s of a character of set cs, or Len(s) + 1
FirstOf(s, cs) ==
    LET at == {i \in 1..Len(s) : s[i] \in cs}
    IN  IF at = {} THEN Len(s) + 1 ELSE CHOOSE i \in at : \A j \in at : i <= j

\* str::parse::<Url> of a ws/wss/http/https address without port or user
\* info: the slashes after the scheme are skipped, the host ends at the first
\* "/" or "?", the host is lower-cased, an empty path is "/"
parse_url(s) ==
    LET rest == SkipSlashes(SubSeq(s, IndexOf(s, ":") + 1, Len(s)))
        hostEnd == FirstOf(rest, {"/", "?"})
        rawHost == SubSeq(rest, 1, hostEnd - 1)
        tail == SubSeq(rest, hostEnd, Len(rest))
        pathEnd == FirstOf(tail, {"?"})
        rawPath == SubSeq(tail, 1, pathEnd - 1)
    IN  IF IndexOf(s, ":") = 0 \/ rawHost = <<>> \/ \E i \in 1..Len(rawHost) : rawHost[i] \in ForbiddenHost
        THEN [ok |-> FALSE]
        ELSE [ok |-> TRUE,
              url |-> [host |-> <<to_lowercase(rawHost)>>,
                       path |-> IF rawPath = <<>> THEN <<"/">> ELSE rawPath,
                       query |-> SubSeq(tail, pathEnd + 1, Len(tail))]]

(***************************************************************************)
(* src/signature/mod.rs: the constants.                                    *)
(***************************************************************************)
\* "AWS4-HMAC-SHA256"
AWS4_HMAC_SHA256 ==
    <<"A", "W", "S", "4", "-", "H", "M", "A", "C", "-", "S", "H", "A", "2", "5", "6">>
\* "X-Amz-Algorithm"
X_AMZ_ALGORITHM ==
    <<"X", "-", "A", "m", "z", "-", "A", "l", "g", "o", "r", "i", "t", "h", "m">>
\* "X-Amz-Date"
X_AMZ_DATE == <<"X", "-", "A", "m", "z", "-", "D", "a", "t", "e">>
\* "X-Amz-Credential"
X_AMZ_CREDENTIAL ==
    <<"X", "-", "A", "m", "z", "-", "C", "r", "e", "d", "e", "n", "t", "i", "a", "l">>
\* "X-Amz-SignedHeaders"
X_AMZ_SIGNED_HEADERS ==
    <<"X", "-", "A", "m", "z", "-", "S", "i", "g", "n", "e", "d", "H", "e", "a", "d", "e", "r", "s">>
\* "X-Amz-Signature"
X_AMZ_SIGNATURE ==
    <<"X", "-", "A", "m", "z", "-", "S", "i", "g", "n", "a", "t", "u", "r", "e">>
\* "X-Amz-Security-Token"
X_AMZ_SECURITY_TOKEN ==
    <<"X", "-", "A", "m", "z", "-", "S", "e", "c", "u", "r", "i", "t", "y", "-", "T", "o", "k", "e", "n">>
\* "authorization"
AUTHORIZATION == <<"a", "u", "t", "h", "o", "r", "i", "z", "a", "t", "i", "o", "n">>
\* "x-amz-content-sha256"
X_AMZ_CONTENT_SHA256 ==
    <<"x", "-", "a", "m", "z", "-", "c", "o", "n", "t", "e", "n", "t", "-", "s", "h", "a", "2", "5", "6">>
\* http::header::HOST.to_string(): a HeaderName displays in lower case
HOST == <<"h", "o", "s", "t">>

(***************************************************************************)
(* A HashMap<String, String> is a function of its keys.  Its iteration    *)
(* order is arbitrary: a clone carries an order of its keys with it.       *)
(***************************************************************************)
EmptyMap == [k \in {} |-> <<>>]

\* HashMap::insert: the key's value is set, replaced when the key is there
insert(map, key, value) ==
    [k \in (DOMAIN map) \cup {key} |-> IF k = key THEN value ELSE map[k]]

(***************************************************************************)
(* calc_signature, V4SigOptions and V4SigBuilder.                          *)
(***************************************************************************)
calc_signature(short_date, secret_key, region, service, msg) ==
    LET key == <<"A", "W", "S", "4">> \o secret_key
        date == sign(key, short_date)
        region_key == sign(date, region)
        service_key == sign(region_key, service)
        signing_key == sign(service_key, <<"a", "w", "s", "4", "_", "r", "e", "q", "u", "e", "s", "t">>)
    IN  hex_encode(sign(signing_key, msg))

\* V4SigOptions::host: unwrap of host_str; <<>> stands for the panic on None
host(opts) == host_str(opts.url)

\* V4SigOptions::uri
uri(opts) == opts.url.path

\* V4SigBuilder::new; order is the iteration order of the cloned headers,
\* now the instant the clock shows
V4SigBuilder_new(opts, hdrs, order, now) ==
    [options |-> opts,
     query |-> query_pairs(opts.url),
     headers |-> hdrs,
     order |-> order,
     timestamp |-> Timestamp_new(now)]

\* self.headers.iter(): the (key, value) pairs in iteration order
iter(self) == [i \in 1..Len(self.order) |-> <<self.order[i], self.headers[self.order[i]]>>]

\* scope with the date read from the clock again instead of the timestamp
scope_rereads_clock(self) ==
    Concat(<<date_stamp(Timestamp_new(clock)), <<"/">>, self.options.profile.region, <<"/">>,
             self.options.service, <<"/", "a", "w", "s", "4", "_", "r", "e", "q", "u", "e", "s", "t">>>>)

scope(self) ==
    Concat(<<date_stamp(self.timestamp), <<"/">>, self.options.profile.region, <<"/">>,
             self.options.service, <<"/", "a", "w", "s", "4", "_", "r", "e", "q", "u", "e", "s", "t">>>>)

\* signed_headers with the names joined in iteration order
signed_headers_unsorted(self) ==
    Join([i \in 1..Len(iter(self)) |-> to_lowercase(iter(self)[i][1])], <<";">>)

signed_headers(self) ==
    merge([i \in 1..Len(iter(self)) |-> to_lowercase(iter(self)[i][1])], <<";">>)

canonical_headers(self) ==
    merge([i \in 1..Len(iter(self)) |->
              to_lowercase(iter(self)[i][1]) \o <<":">> \o trim(iter(self)[i][2])],
          <<"\n">>)

\* canonical_query with the items joined in the order of the query list
canonical_query_unsorted(self) ==
    Join([i \in 1..Len(self.query) |->
             encode_uri(self.query[i][1]) \o <<"=">> \o encode_uri(self.query[i][2])],
         <<"&">>)

canonical_query(self) ==
    merge([i \in 1..Len(self.query) |->
              encode_uri(self.query[i][1]) \o <<"=">> \o encode_uri(self.query[i][2])],
          <<"&">>)

canonical_request(self) ==
    Concat(<<method_display(self.options.method), <<"\n">>,
             uri(self.options), <<"\n">>,
             canonical_query(self), <<"\n">>,
             canonical_headers(self), <<"\n", "\n">>,
             signed_headers(self), <<"\n">>,
             hash_body(self.options.method)>>)

string_to_sign(self) ==
    Concat(<<AWS4_HMAC_SHA256, <<"\n">>,
             x_amz_date(self.timestamp), <<"\n">>,
             scope(self), <<"\n">>,
             hash(canonical_request(self))>>)

signature(self) ==
    calc_signature(date_stamp(self.timestamp),
                   self.options.profile.secret_key,
                   self.options.profile.region,
                   self.options.service,
                   string_to_sign(self))

authorization(self) ==
    Concat(<<AWS4_HMAC_SHA256, <<" ", "C", "r", "e", "d", "e", "n", "t", "i", "a", "l", "=">>, self.options.profile.access_key, <<"/">>,
             scope(self), <<",", " ", "S", "i", "g", "n", "e", "d", "H", "e", "a", "d", "e", "r", "s", "=">>, signed_headers(self),
             <<",", "S", "i", "g", "n", "a", "t", "u", "r", "e", "=">>, signature(self)>>)

credential(self) == Concat(<<self.options.profile.access_key, <<"/">>, scope(self)>>)

\* add_query putting the pair at the front of the list
add_query_front(self, k, v) == [self EXCEPT !.query = <<<<k, v>>>> \o @]

add_query(self, k, v) == [self EXCEPT !.query = Append(@, <<k, v>>)]

(***************************************************************************)
(* The inputs of the calls and the initial state.                          *)
(***************************************************************************)
\* the profiles: with an empty session token and with one that needs encoding
Profiles ==
    {[access_key |-> <<"A", "K">>, secret_key |-> <<"s", "k">>, region |-> <<"e", "u">>, session_token |-> t] :
        t \in {<<>>, <<"t", "/", "+">>}}

GET == [verb |-> <<"G", "E", "T">>, body |-> <<>>]

POST == [verb |-> <<"P", "O", "S", "T">>, body |-> <<"{", "}">>]

\* the target URLs of sign_headers, parsed: one with a host and a query that
\* is neither sorted nor in canonical encoding, one without a host (such as
\* file:///x)
SignUrls ==
    {[host |-> <<<<"a", ".", "i", "o">>>>, path |-> <<"/", "p">>, query |-> <<"b", "=", "x", "+", "y", "&", "a", "=", "%", "2", "f">>],
     [host |-> <<>>, path |-> <<"/", "x">>, query |-> <<>>]}

SignOptions ==
    {[method |-> POST, service |-> <<"e", "s">>, url |-> u, profile |-> p] :
        u \in SignUrls, p \in Profiles}

\* the headers a caller may pass: (name, value) pairs with distinct names
HeaderPool ==
    {<<<<"H", "o", "s", "t">>, <<"e", "v", "i", "l", ".", "i", "o">>>>,
     <<<<"h", "o", "s", "t">>, <<"o", "l", "d", ".", "i", "o">>>>,
     <<<<"X", "-", "B">>, <<" ", "v", " ">>>>,
     <<<<"x", "-", "b">>, <<"2">>>>,
     <<<<"a">>, <<"1">>>>}

CallerHeaders ==
    {[k \in {p[1] : p \in S} |-> (CHOOSE p \in S : p[1] = k)[2]] :
        S \in {T \in SUBSET HeaderPool : Cardinality(T) <= MaxHeaders}}

\* mqtt's endpoints: two host names and one that is no host name
Endpoints == {<<"a", ".", "i", "o">>, <<"B", ".", "i", "o">>, <<"a", " ", "b">>}

Init ==
    /\ clock = SecondsPerDay - 1
    /\ v4 = <<>>
    /\ request = <<>>
    /\ url = <<>>
    /\ fault = "none"
    /\ captured = <<>>
    /\ \/ /\ op = "sign_headers"
          /\ pc = "sh_host"
          /\ caller \in CallerHeaders
          /\ headers = caller
          /\ options \in {<<o>> : o \in SignOptions}
          /\ profile = options[1].profile
          /\ endpoint = <<>>
       \/ /\ op = "mqtt"
          /\ pc = "mq_url"
          /\ caller = EmptyMap
          /\ headers = EmptyMap
          /\ options = <<>>
          /\ profile \in Profiles
          /\ endpoint \in Endpoints

\* the wall clock advances by a second while the call runs
Tick ==
    /\ pc \notin {"done", "panicked"}
    /\ clock < SecondsPerDay - 1 + MaxTicks
    /\ clock' = clock + 1
    /\ UNCHANGED <<op, pc, caller, headers, options, profile, endpoint, url, v4, request,
                   fault, captured>>

(***************************************************************************)
(* sign_headers, one action per statement.                                 *)
(***************************************************************************)
\* headers.insert(HOST.to_string(), options.host()): the argument is
\* evaluated first, and its unwrap panics when the URL has no host
InsertHost ==
    /\ pc = "sh_host"
    /\ IF host(options[1]) = <<>>
       THEN /\ fault' = "panic"
            /\ pc' = "panicked"
            /\ UNCHANGED headers
       ELSE /\ headers' = insert(headers, HOST, host(options[1])[1])
            /\ pc' = "sh_new"
            /\ UNCHANGED fault
    /\ UNCHANGED <<op, clock, caller, options, profile, endpoint, url, v4, request, captured>>

\* the builder constructed from the headers after the X-Amz-Date insert
NewBuilderAfterDate ==
    /\ pc = "sh_new"
    /\ \E order \in Orders(DOMAIN insert(headers, X_AMZ_DATE, <<>>)) :
          v4' = <<V4SigBuilder_new(options[1],
                                   insert(headers, X_AMZ_DATE, x_amz_date(Timestamp_new(clock))),
                                   order, clock)>>
    /\ captured' = Append(captured, clock)
    /\ pc' = "sh_date"
    /\ UNCHANGED <<op, clock, caller, headers, options, profile, endpoint, url, request, fault>>

\* let v4 = V4SigBuilder::new(&options, &headers.clone())
NewBuilder ==
    /\ pc = "sh_new"
    /\ \E order \in Orders(DOMAIN headers) :
          v4' = <<V4SigBuilder_new(options[1], headers, order, clock)>>
    /\ captured' = Append(captured, clock)
    /\ pc' = "sh_date"
    /\ UNCHANGED <<op, clock, caller, headers, options, profile, endpoint, url, request, fault>>

\* headers.insert(X_AMZ_DATE.to_string(), v4.timestamp.x_amz_date())
InsertDate ==
    /\ pc = "sh_date"
    /\ headers' = insert(headers, X_AMZ_DATE, x_amz_date(v4[1].timestamp))
    /\ pc' = "sh_auth"
    /\ UNCHANGED <<op, clock, caller, options, profile, endpoint, url, v4, request, fault,
                   captured>>

\* headers.insert(AUTHORIZATION.to_string(), v4.authorization())
InsertAuthorization ==
    /\ pc = "sh_auth"
    /\ headers' = insert(headers, AUTHORIZATION, authorization(v4[1]))
    /\ pc' = "sh_token"
    /\ UNCHANGED <<op, clock, caller, options, profile, endpoint, url, v4, request, fault,
                   captured>>

\* the session token inserted only when the profile has one
InsertSecurityTokenIfAny ==
    /\ pc = "sh_token"
    /\ headers' = IF options[1].profile.session_token = <<>> THEN headers
                  ELSE insert(headers, X_AMZ_SECURITY_TOKEN, options[1].profile.session_token)
    /\ pc' = "sh_sha"
    /\ UNCHANGED <<op, clock, caller, options, profile, endpoint, url, v4, request, fault,
                   captured>>

\* headers.insert(X_AMZ_SECURITY_TOKEN.to_string(), session_token)
InsertSecurityToken ==
    /\ pc = "sh_token"
    /\ headers' = insert(headers, X_AMZ_SECURITY_TOKEN, options[1].profile.session_token)
    /\ pc' = "sh_sha"
    /\ UNCHANGED <<op, clock, caller, options, profile, endpoint, url, v4, request, fault,
                   captured>>

\* headers.insert(X_AMZ_CONTENT_SHA256.to_string(), method.hash_body())
InsertContentSha256 ==
    /\ pc = "sh_sha"
    /\ headers' = insert(headers, X_AMZ_CONTENT_SHA256, hash_body(v4[1].options.method))
    /\ pc' = "done"
    /\ UNCHANGED <<op, clock, caller, options, profile, endpoint, url, v4, request, fault,
                   captured>>

(***************************************************************************)
(* mqtt_over_websockets_request, one action per statement.                 *)
(***************************************************************************)
\* let url = format!("wss://{}/mqtt", endpoint); let options = ...
\* url.parse().unwrap() panics when the string is no URL
MqttOptions ==
    /\ pc = "mq_url"
    /\ url' = Concat(<<<<"w", "s", "s", ":", "/", "/">>, endpoint, <<"/", "m", "q", "t", "t">>>>)
    /\ IF parse_url(url').ok
       THEN /\ options' = <<[method |-> GET, service |-> <<"i", "o", "t", "d", "a", "t", "a">>,
                             url |-> parse_url(url').url, profile |-> profile]>>
            /\ pc' = "mq_headers"
            /\ UNCHANGED fault
       ELSE /\ fault' = "panic"
            /\ pc' = "panicked"
            /\ UNCHANGED options
    /\ UNCHANGED <<op, clock, caller, headers, profile, endpoint, v4, request, captured>>

\* let headers = HashMap::from([(HOST.to_string(), options.host())])
MqttHeaders ==
    /\ pc = "mq_headers"
    /\ IF host(options[1]) = <<>>
       THEN /\ fault' = "panic"
            /\ pc' = "panicked"
            /\ UNCHANGED headers
       ELSE /\ headers' = insert(EmptyMap, HOST, host(options[1])[1])
            /\ pc' = "mq_new"
            /\ UNCHANGED fault
    /\ UNCHANGED <<op, clock, caller, options, profile, endpoint, url, v4, request, captured>>

\* let mut v4 = V4SigBuilder::new(&options, &headers)
MqttNew ==
    /\ pc = "mq_new"
    /\ \E order \in Orders(DOMAIN headers) :
          v4' = <<V4SigBuilder_new(options[1], headers, order, clock)>>
    /\ captured' = Append(captured, clock)
    /\ pc' = "mq_algorithm"
    /\ UNCHANGED <<op, clock, caller, headers, options, profile, endpoint, url, request, fault>>

\* v4.add_query(X_AMZ_ALGORITHM, AWS4_HMAC_SHA256.to_string())
AddAlgorithm ==
    /\ pc = "mq_algorithm"
    /\ v4' = <<add_query(v4[1], X_AMZ_ALGORITHM, AWS4_HMAC_SHA256)>>
    /\ pc' = "mq_date"
    /\ UNCHANGED <<op, clock, caller, headers, options, profile, endpoint, url, request, fault,
                   captured>>

\* v4.add_query(X_AMZ_DATE, v4.timestamp.x_amz_date())
AddDate ==
    /\ pc = "mq_date"
    /\ v4' = <<add_query(v4[1], X_AMZ_DATE, x_amz_date(v4[1].timestamp))>>
    /\ pc' = "mq_credential"
    /\ UNCHANGED <<op, clock, caller, headers, options, profile, endpoint, url, request, fault,
                   captured>>

\* v4.add_query(X_AMZ_CREDENTIAL, v4.credential())
AddCredential ==
    /\ pc = "mq_credential"
    /\ v4' = <<add_query(v4[1], X_AMZ_CREDENTIAL, credential(v4[1]))>>
    /\ pc' = "mq_signed_headers"
    /\ UNCHANGED <<op, clock, caller, headers, options, profile, endpoint, url, request, fault,
                   captured>>

\* v4.add_query(X_AMZ_SIGNED_HEADERS, v4.signed_headers())
AddSignedHeaders ==
    /\ pc = "mq_signed_headers"
    /\ v4' = <<add_query(v4[1], X_AMZ_SIGNED_HEADERS, signed_headers(v4[1]))>>
    /\ pc' = "mq_signature"
    /\ UNCHANGED <<op, clock, caller, headers, options, profile, endpoint, url, request, fault,
                   captured>>

\* lines 211 and 212 swapped: the signature is computed before the
\* X-Amz-SignedHeaders parameter is appended
AddSignatureBeforeSignedHeaders ==
    /\ pc = "mq_signature"
    /\ v4' = <<add_query(v4[1], X_AMZ_SIGNATURE,
                         signature([v4[1] EXCEPT !.query = SubSeq(@, 1, Len(@) - 1)]))>>
    /\ pc' = "mq_token"
    /\ UNCHANGED <<op, clock, caller, headers, options, profile, endpoint, url, request, fault,
                   captured>>

\* v4.add_query(X_AMZ_SIGNATURE, v4.signature())
AddSignature ==
    /\ pc = "mq_signature"
    /\ v4' = <<add_query(v4[1], X_AMZ_SIGNATURE, signature(v4[1]))>>
    /\ pc' = "mq_token"
    /\ UNCHANGED <<op, clock, caller, headers, options, profile, endpoint, url, request, fault,
                   captured>>

\* the session token appended only when the profile has one
AddSecurityTokenIfAny ==
    /\ pc = "mq_token"
    /\ v4' = IF profile.session_token = <<>> THEN v4
             ELSE <<add_query(v4[1], X_AMZ_SECURITY_TOKEN, profile.session_token)>>
    /\ pc' = "mq_request"
    /\ UNCHANGED <<op, clock, caller, headers, options, profile, endpoint, url, request, fault,
                   captured>>

\* v4.add_query(X_AMZ_SECURITY_TOKEN, profile.session_token.to_string())
AddSecurityToken ==
    /\ pc = "mq_token"
    /\ v4' = <<add_query(v4[1], X_AMZ_SECURITY_TOKEN, profile.session_token)>>
    /\ pc' = "mq_request"
    /\ UNCHANGED <<op, clock, caller, headers, options, profile, endpoint, url, request, fault,
                   captured>>

\* let mut request = format!("{}?{}", url, v4.canonical_query())
\*     .into_client_request().unwrap()
\* (the request holds the headers mod.rs sets; the handshake headers that
\* tungstenite may add on its own are not part of it)
MqttRequest ==
    /\ pc = "mq_request"
    /\ request' = <<[url |-> Concat(<<url, <<"?">>, canonical_query(v4[1])>>),
                     headers |-> EmptyMap]>>
    /\ pc' = "mq_host"
    /\ UNCHANGED <<op, clock, caller, headers, options, profile, endpoint, url, v4, fault,
                   captured>>

\* request.headers_mut().insert(HOST, options.host().parse().unwrap())
MqttHost ==
    /\ pc = "mq_host"
    /\ request' = <<[request[1] EXCEPT !.headers = insert(@, HOST, host(options[1])[1])]>>
    /\ pc' = "done"
    /\ UNCHANGED <<op, clock, caller, headers, options, profile, endpoint, url, v4, fault,
                   captured>>

Next ==
    \/ Tick
    \/ InsertHost
    \/ NewBuilder
    \/ InsertDate
    \/ InsertAuthorization
    \/ InsertSecurityToken
    \/ InsertContentSha256
    \/ MqttOptions
    \/ MqttHeaders
    \/ MqttNew
    \/ AddAlgorithm
    \/ AddDate
    \/ AddCredential
    \/ AddSignedHeaders
    \/ AddSignature
    \/ AddSecurityToken
    \/ MqttRequest
    \/ MqttHost

Spec == Init /\ [][Next]_vars

(***************************************************************************)
(* Terms the properties are stated in.                                     *)
(***************************************************************************)
SignDone == op = "sign_headers" /\ pc = "done"

MqttDone == op = "mqtt" /\ pc = "done"

\* the scope, the signing-key chain and the string-to-sign written out for
\* an instant t, over the canonical request of builder self
ScopeAt(t, self) ==
    Concat(<<date_stamp(t), <<"/">>, self.options.profile.region, <<"/">>,
             self.options.service, <<"/", "a", "w", "s", "4", "_", "r", "e", "q", "u", "e", "s", "t">>>>)

SignatureAt(t, self) ==
    LET kDate == sign(<<"A", "W", "S", "4">> \o self.options.profile.secret_key, date_stamp(t))
        kRegion == sign(kDate, self.options.profile.region)
        kService == sign(kRegion, self.options.service)
        kSigning == sign(kService, <<"a", "w", "s", "4", "_", "r", "e", "q", "u", "e", "s", "t">>)
    IN  hex_encode(sign(kSigning,
            Concat(<<AWS4_HMAC_SHA256, <<"\n">>, x_amz_date(t), <<"\n">>, ScopeAt(t, self),
                     <<"\n">>, hash(canonical_request(self))>>)))

\* mqtt's builder as it was when the signature was computed: with the
\* parameters appended before X-Amz-Signature
SigningBuilder == [v4[1] EXCEPT !.query = SubSeq(@, 1, 4)]

\* the query string of the request's URL, and its parameters as written
UrlQuery ==
    SubSeq(request[1].url, IndexOf(request[1].url, "?") + 1, Len(request[1].url))

RawParams ==
    LET segs == Split(UrlQuery, "&")
    IN  [i \in 1..Len(segs) |->
            <<SubSeq(segs[i], 1, IndexOf(segs[i], "=") - 1),
              SubSeq(segs[i], IndexOf(segs[i], "=") + 1, Len(segs[i]))>>]

\* the parameters of the URL, re-extracted (decoded)
UrlParams == parse_query(UrlQuery)

Names(pairs) == [i \in 1..Len(pairs) |-> pairs[i][1]]

Without(pairs, names) == SelectSeq(pairs, LAMBDA p : p[1] \notin names)

ValueOf(pairs, name) == pairs[CHOOSE i \in 1..Len(pairs) : pairs[i][1] = name][2]

\* a sequence of strings is in ascending order
Ascending(items) ==
    \A i \in 1..(Len(items) - 1) : ~StrLess(items[i + 1], items[i])

Range(f) == {f[i] : i \in DOMAIN f}

Count(items, x) == Cardinality({i \in 1..Len(items) : items[i] = x})

(***************************************************************************)
(* The properties.                                                         *)
(***************************************************************************)
\* C1: within one call the clock is read exactly once, by V4SigBuilder::new,
\* and every time-derived value of the call (the X-Amz-Date header or query
\* parameter, the date of the credential scope, the date that starts the
\* signing-key chain, the timestamp line of the string-to-sign) is a
\* projection of that one instant, however the clock advances meanwhile.
C1_OneCapturedInstant ==
    /\ Len(captured) <= 1
    /\ v4 # <<>> => captured = <<v4[1].timestamp>>
    /\ (op = "sign_headers" /\ pc \in {"sh_auth", "sh_token", "sh_sha", "done"}) =>
           headers[X_AMZ_DATE] = x_amz_date(captured[1])
    /\ (op = "sign_headers" /\ pc \in {"sh_token", "sh_sha", "done"}) =>
           headers[AUTHORIZATION] =
               Concat(<<AWS4_HMAC_SHA256, <<" ", "C", "r", "e", "d", "e", "n", "t", "i", "a", "l", "=">>, profile.access_key, <<"/">>,
                        ScopeAt(captured[1], v4[1]),
                        <<",", " ", "S", "i", "g", "n", "e", "d", "H", "e", "a", "d", "e", "r", "s", "=">>, signed_headers(v4[1]),
                        <<",", "S", "i", "g", "n", "a", "t", "u", "r", "e", "=">>, SignatureAt(captured[1], v4[1])>>)
    /\ MqttDone =>
           /\ v4[1].query[2] = <<X_AMZ_DATE, x_amz_date(captured[1])>>
           /\ v4[1].query[3] =
                  <<X_AMZ_CREDENTIAL,
                    Concat(<<profile.access_key, <<"/">>, ScopeAt(captured[1], v4[1])>>)>>
           /\ v4[1].query[5] = <<X_AMZ_SIGNATURE, SignatureAt(captured[1], SigningBuilder)>>

\* C1 witness: a call has finished while the clock moved on to the next day
\* after the instant was captured
C1_Witness ==
    /\ pc = "done"
    /\ Len(captured) = 1
    /\ date_stamp(clock) # date_stamp(captured[1])

\* the target has no host (sign_headers) or is no URL (mqtt)
InvalidTarget ==
    \/ (op = "sign_headers" /\ host_str(options[1].url) = <<>>)
    \/ (op = "mqtt" /\ ~parse_url(Concat(<<<<"w", "s", "s", ":", "/", "/">>, endpoint, <<"/", "m", "q", "t", "t">>>>)).ok)

\* C2: with a target URL that has no host or cannot be parsed, the call ends
\* with an InvalidUrl error value returned to the caller before any signing
\* work (no header inserted, no timestamp captured), never with a fault that
\* ends the host process.
C2_InvalidUrlReturned ==
    /\ fault # "panic"
    /\ (InvalidTarget /\ pc \notin {"sh_host", "mq_url"}) =>
           /\ fault = "InvalidUrl"
           /\ headers = caller
           /\ captured = <<>>

\* the lower-cased names the SignedHeaders list of builder self holds, and
\* the lower-cased names of its canonical header lines
SignedNames(self) == Split(signed_headers(self), ";")

CanonicalNames(self) ==
    LET lines == Split(canonical_headers(self), "\n")
    IN  [i \in 1..Len(lines) |-> CanonicalKey(lines[i])]

AddedNames == {X_AMZ_DATE, AUTHORIZATION, X_AMZ_SECURITY_TOKEN, X_AMZ_CONTENT_SHA256}

\* the caller's mapping holds none of the names sign_headers inserts, under
\* any letter case
CallerHoldsNone ==
    \A k \in DOMAIN caller :
        to_lowercase(k) \notin {to_lowercase(n) : n \in AddedNames \cup {HOST}}

\* C8: sign_headers acts in the order Host, timestamp capture, X-Amz-Date,
\* authorization, X-Amz-Security-Token, x-amz-content-sha256; the
\* authorization is computed over the headers as they are after the Host
\* insert and before the later ones: when the caller's headers hold none of
\* those names, the SignedHeaders list and the canonical headers are the
\* caller's headers plus host, with none of the four later names.
C8_SnapshotAfterHost ==
    (op = "sign_headers" /\ fault = "none" /\ CallerHoldsNone) =>
        LET added == (DOMAIN headers) \ (DOMAIN caller)
        IN  /\ pc = "sh_host" => added = {} /\ captured = <<>>
            /\ pc = "sh_new" => added = {HOST} /\ captured = <<>>
            /\ pc = "sh_date" => added = {HOST} /\ Len(captured) = 1
            /\ pc = "sh_auth" => added = {HOST, X_AMZ_DATE}
            /\ pc = "sh_token" => added = {HOST, X_AMZ_DATE, AUTHORIZATION}
            /\ pc = "sh_sha" =>
                   added = {HOST, X_AMZ_DATE, AUTHORIZATION, X_AMZ_SECURITY_TOKEN}
            /\ pc = "done" => added = AddedNames \cup {HOST}
            /\ v4 # <<>> =>
                   /\ v4[1].headers = insert(caller, HOST, host_str(options[1].url)[1])
                   /\ \A names \in {SignedNames(v4[1])} :
                          /\ Len(names) = Cardinality(DOMAIN caller) + 1
                          /\ Range(names) = {to_lowercase(k) : k \in DOMAIN caller} \cup {HOST}
                          /\ CanonicalNames(v4[1]) = names
                          /\ \A n \in AddedNames, i \in 1..Len(names) :
                                 names[i] # to_lowercase(n)
            /\ pc \in {"sh_token", "sh_sha", "done"} =>
                   headers[AUTHORIZATION] = authorization(v4[1])

\* C8 witness: sign_headers has returned on a mapping of two caller headers
\* that holds none of the names it inserts
C8_Witness ==
    /\ SignDone
    /\ CallerHoldsNone
    /\ Cardinality(DOMAIN caller) = 2

\* C9 as stated: after sign_headers the keys are exactly Host, X-Amz-Date,
\* authorization, X-Amz-Security-Token, x-amz-content-sha256, in this letter
\* case, plus the caller's other headers unchanged; X-Amz-Security-Token is
\* there also for an empty session token.
C9_KeysAsStated ==
    SignDone =>
        LET five == {<<"H", "o", "s", "t">>} \cup AddedNames
        IN  /\ DOMAIN headers = five \cup DOMAIN caller
            /\ \A k \in (DOMAIN caller) \ five : headers[k] = caller[k]
            /\ headers[X_AMZ_SECURITY_TOKEN] = profile.session_token

\* C9, amended: the host key is spelled host, in lower case (the text of
\* http::header::HOST); the rest as stated.
C9_KeysLowerHost ==
    SignDone =>
        LET five == {HOST} \cup AddedNames
        IN  /\ DOMAIN headers = five \cup DOMAIN caller
            /\ \A k \in (DOMAIN caller) \ five : headers[k] = caller[k]
            /\ headers[HOST] = host_str(options[1].url)[1]
            /\ headers[X_AMZ_SECURITY_TOKEN] = profile.session_token

\* C9 witness: sign_headers has returned on an initially empty mapping for a
\* profile whose session token is the empty string
C9_Witness ==
    /\ SignDone
    /\ caller = EmptyMap
    /\ profile.session_token = <<>>

\* C10: whatever the caller's mapping, also one that holds a host header
\* under any letter case, after sign_headers exactly one entry has the
\* lower-cased name host, its value is the URL's host, and no lower-cased
\* name (host included) is listed twice in SignedHeaders.
C10_SingleHost ==
    SignDone =>
        /\ Cardinality({k \in DOMAIN headers : to_lowercase(k) = HOST}) = 1
        /\ \A k \in DOMAIN headers :
               to_lowercase(k) = HOST => headers[k] = host_str(options[1].url)[1]
        /\ \A names \in {SignedNames(v4[1])} :
               \A i, j \in 1..Len(names) : names[i] = names[j] => i = j

\* builder self with its headers iterated in another order
Reordered(self, order) == [self EXCEPT !.order = order]

\* one fixed order of the keys of a mapping, the same for every builder that
\* holds these keys
ReferenceOrder(map) == CHOOSE order \in Orders(DOMAIN map) : TRUE

\* C3: for a fixed timestamp and signing context, header sets holding the
\* same (name, value) pairs, whatever the order the mapping iterates them
\* in, give the same signed_headers(), canonical_headers() and signature();
\* the header names are lower-cased and ascending in both strings.  (Every
\* iteration order of a mapping is the order of some reachable builder; each
\* is compared with the same mapping iterated in its reference order.)
C3_HeaderOrderInvariant ==
    v4 # <<>> =>
        \A ref \in {Reordered(v4[1], ReferenceOrder(v4[1].headers))} :
            /\ signed_headers(v4[1]) = signed_headers(ref)
            /\ canonical_headers(v4[1]) = canonical_headers(ref)
            /\ signature(v4[1]) = signature(ref)
            /\ \A names \in {SignedNames(v4[1])} :
                   /\ Ascending(names)
                   /\ CanonicalNames(v4[1]) = names
                   /\ \A i \in 1..Len(names) : names[i] = to_lowercase(names[i])
                   /\ \A k \in DOMAIN v4[1].headers :
                          \E i \in 1..Len(names) : names[i] = to_lowercase(k)

\* C3 witness: a builder whose mapping iterates three headers, one with an
\* upper-case name, in an order that is not the ascending one
C3_Witness ==
    /\ v4 # <<>>
    /\ v4[1].order # ReferenceOrder(v4[1].headers)
    /\ Len(v4[1].order) = 3
    /\ \E k \in DOMAIN v4[1].headers : to_lowercase(k) # k
    /\ ~Ascending([i \in 1..3 |-> to_lowercase(v4[1].order[i])])

\* the items canonical_query is to hold, in the order of the query list
QueryItems(self) ==
    [i \in 1..Len(self.query) |->
        encode_uri(self.query[i][1]) \o <<"=">> \o encode_uri(self.query[i][2])]

CanonicalQueryItems(self) ==
    IF canonical_query(self) = <<>> THEN <<>> ELSE Split(canonical_query(self), "&")

\* query list q with the pairs at i and i + 1 exchanged
Swapped(q, i) ==
    [j \in 1..Len(q) |-> IF j = i THEN q[i + 1] ELSE IF j = i + 1 THEN q[i] ELSE q[j]]

\* C4: canonical_query() holds one encoded_key=encoded_value item per pair of
\* the query list, ascending by percent-encoded key whatever the order the
\* pairs were taken from the URL or appended in, joined by "&"; the empty
\* list gives the empty string.
C4_CanonicalQuerySorted ==
    v4 # <<>> =>
        LET items == CanonicalQueryItems(v4[1])
        IN  /\ Len(items) = Len(v4[1].query)
            /\ \A x \in Range(items) \cup Range(QueryItems(v4[1])) :
                   Count(items, x) = Count(QueryItems(v4[1]), x)
            /\ Ascending([i \in 1..Len(items) |-> CanonicalKey(items[i])])
            /\ \A i \in 1..(Len(v4[1].query) - 1) :
                   canonical_query([v4[1] EXCEPT !.query = Swapped(@, i)]) =
                       canonical_query(v4[1])
            /\ v4[1].query = <<>> => canonical_query(v4[1]) = <<>>

\* C4 witness: a builder whose query list is not in ascending order of the
\* encoded keys, so that canonical_query reorders it
C4_Witness ==
    /\ v4 # <<>>
    /\ Len(v4[1].query) >= 2
    /\ ~Ascending([i \in 1..Len(v4[1].query) |-> encode_uri(v4[1].query[i][1])])
    /\ CanonicalQueryItems(v4[1]) # QueryItems(v4[1])

\* the signature recomputed from re-extracted parameters: same timestamp,
\* credentials, Host header, GET with empty body
Resigned(params) == signature([v4[1] EXCEPT !.query = params])

\* C5 as stated: the parameters of the returned URL, without X-Amz-Signature
\* alone, recanonicalized and signed again give the signature embedded in
\* the URL.
C5_RoundTripAsStated ==
    MqttDone =>
        Resigned(Without(UrlParams, {X_AMZ_SIGNATURE})) = <<ValueOf(UrlParams, X_AMZ_SIGNATURE)[1]>>

\* C5, amended: the parameters of the returned URL, without X-Amz-Signature
\* and without X-Amz-Security-Token (appended after the signature was
\* computed), recanonicalized and signed again give the signature embedded
\* in the URL.
C5_RoundTripWithoutToken ==
    MqttDone =>
        /\ Len(ValueOf(UrlParams, X_AMZ_SIGNATURE)) = 1
        /\ Resigned(Without(UrlParams, {X_AMZ_SIGNATURE, X_AMZ_SECURITY_TOKEN})) =
               ValueOf(UrlParams, X_AMZ_SIGNATURE)

\* C5 witness: mqtt has returned a URL whose parameters hold percent-encoded
\* text, for a profile with a session token
C5_Witness ==
    /\ MqttDone
    /\ profile.session_token # <<>>
    /\ \E i \in 1..Len(RawParams) : RawParams[i][2] # UrlParams[i][2]

\* C6 as stated: X-Amz-Signature is appended last, its value is the
\* signature over the canonical query of all the parameters appended before
\* it, and no parameter of the final URL but X-Amz-Signature is missing from
\* the query the signature was computed over.
C6_SignatureLastAsStated ==
    MqttDone =>
        LET q == v4[1].query
        IN  /\ q[Len(q)][1] = X_AMZ_SIGNATURE
            /\ q[Len(q)][2] = signature([v4[1] EXCEPT !.query = SubSeq(q, 1, Len(q) - 1)])
            /\ Range(Names(UrlParams)) \ Range(Names(SubSeq(q, 1, Len(q) - 1))) =
                   {X_AMZ_SIGNATURE}

\* C6, amended: X-Amz-Signature is appended fifth, after X-Amz-Algorithm,
\* X-Amz-Date, X-Amz-Credential and X-Amz-SignedHeaders and before
\* X-Amz-Security-Token; its value is the signature over the canonical query
\* of the four parameters appended before it; the parameters of the final
\* URL missing from the signed query are X-Amz-Signature and
\* X-Amz-Security-Token.
C6_SignatureBeforeToken ==
    MqttDone =>
        LET q == v4[1].query
        IN  /\ Len(q) = 6
            /\ Count(Names(q), X_AMZ_SIGNATURE) = 1
            /\ q[5][1] = X_AMZ_SIGNATURE
            /\ q[6][1] = X_AMZ_SECURITY_TOKEN
            /\ Names(SubSeq(q, 1, 4)) =
                   <<X_AMZ_ALGORITHM, X_AMZ_DATE, X_AMZ_CREDENTIAL, X_AMZ_SIGNED_HEADERS>>
            /\ q[5][2] = signature([v4[1] EXCEPT !.query = SubSeq(q, 1, 4)])
            /\ Range(Names(UrlParams)) \ Range(Names(SubSeq(q, 1, 4))) =
                   {X_AMZ_SIGNATURE, X_AMZ_SECURITY_TOKEN}

\* C6 witness: mqtt has returned, its query list ending with the session
\* token after the signature
C6_Witness ==
    /\ MqttDone
    /\ request # <<>>
    /\ v4[1].query[Len(v4[1].query)] = <<X_AMZ_SECURITY_TOKEN, profile.session_token>>

\* the URL and the request of mqtt, for the parameter names in the order
\* given
UrlHolds(names) ==
    /\ SubSeq(request[1].url, 1, IndexOf(request[1].url, "?")) =
           Concat(<<<<"w", "s", "s", ":", "/", "/">>, endpoint, <<"/", "m", "q", "t", "t", "?">>>>)
    /\ Names(RawParams) = names
    /\ ValueOf(RawParams, X_AMZ_ALGORITHM) = AWS4_HMAC_SHA256
    /\ ValueOf(RawParams, X_AMZ_CREDENTIAL) =
           encode_uri(Concat(<<profile.access_key, <<"/">>, ScopeAt(captured[1], v4[1])>>))
    /\ {to_lowercase(k) : k \in DOMAIN request[1].headers} = {HOST}
    /\ Cardinality(DOMAIN request[1].headers) = 1

====
